---------------------------- MODULE Spec2Model ----------------------------
(***************************************************************************)
(* Model of the cyclonext system of iaqualink-py:                          *)
(*   src/src/iaqualink/systems/cyclonext/system.py  (CyclonextSystem)      *)
(*   src/src/iaqualink/systems/cyclonext/device.py  (CyclonextDevice)      *)
(*                                                                         *)
(* CyclonextSystem.update polls the shadow document of one robot, at most  *)
(* once per MIN_SECS_TO_REFRESH seconds, re-authenticating once when the   *)
(* request is refused as unauthorized; _parse_shadow_response flattens the *)
(* document and merges it into the device registry self.devices.           *)
(***************************************************************************)
EXTENDS Integers, Sequences, FiniteSets, TLC

VARIABLES
    clock,          \* int(time.time()): the wall clock in whole seconds
    last_refresh,   \* CyclonextSystem.last_refresh
    online,         \* AqualinkSystem.online: "None", "True" or "False"
    devices,        \* AqualinkSystem.devices: name -> device object
    nobjs,          \* number of device objects constructed so far (object ids)
    id_token,       \* AqualinkClient.id_token: the current credential
    calls,          \* each coroutine's position, operation and request data
    ev              \* the step just taken and what it delivered to the caller

vars == <<clock, last_refresh, online, devices, nobjs, id_token, calls, ev>>

-----------------------------------------------------------------------------
(* Bounds of the model.                                                    *)

MaxClock == 4       \* the clock runs from StartClock to MaxClock
MaxVal == 2         \* attribute values written in documents are 1..MaxVal
MaxRobots == 2      \* longest robot sequence of a parsed document
MaxToken == 1       \* credentials handed out by login are 1..MaxToken

\* iaqualink.const.MIN_SECS_TO_REFRESH: the minimum refresh interval.
MIN_SECS_TO_REFRESH == 2

\* The coroutines that may run on one system at the same time.
Calls == {"a", "b"}

Vals == 1 .. MaxVal

-----------------------------------------------------------------------------
(* JSON values: a number, null, or a mapping whose items keep the order    *)
(* of the document, as the items of a Python dict do.                      *)

Num(n) == [t |-> "num", n |-> n]
Null == [t |-> "null"]
Map(items) == [t |-> "map", items |-> items]

\* A response: json is FALSE when the body does not decode, path is FALSE
\* when data["state"]["reported"]["equipment"]["robot"] does not exist,
\* robot is the sequence found there.  unreachable is TRUE when the document
\* reports, outside the robot sequence, that the unit is not connected.
Response(json, path, robot, unreachable) ==
    [json |-> json, path |-> path, robot |-> robot, unreachable |-> unreachable]


-----------------------------------------------------------------------------
(* Python dict helpers.                                                    *)

EmptyDict == [k \in {} |-> Null]

DictSet(d, k, v) == [x \in (DOMAIN d) \cup {k} |-> IF x = k THEN v ELSE d[x]]

\* An insertion-ordered dict as a sequence of <<key, value>> pairs:
\* dict.update({k: v}) keeps the position of a key that is present and
\* appends a new one.
HasKey(od, k) == \E i \in 1 .. Len(od) : od[i][1] = k

\* dict.setdefault instead of dict.update: a key that is present keeps its value.
OrderedUpdate_KeepFirst(od, k, v) ==
    IF HasKey(od, k) THEN od ELSE Append(od, <<k, v>>)

OrderedUpdate(od, k, v) ==
    IF HasKey(od, k)
    THEN [i \in 1 .. Len(od) |-> IF od[i][1] = k THEN <<k, v>> ELSE od[i]]
    ELSE Append(od, <<k, v>>)

-----------------------------------------------------------------------------
(* CyclonextSystem._parse_shadow_response, lines 89-125.                   *)

TopNames == {"mode", "cycle", "cycleStartTime"}
DurNames == {"quickTim", "deepTim", "stepper"}
ProgNames == {"production", "boost", "low"}

\* attrs = {"name": name}; attrs.update({"state": state})
Attrs(name, state) == [name |-> name, state |-> state]

\* The durations loop without the test of line 113.
RECURSIVE DurationsLoop_NoFilter(_, _, _)
DurationsLoop_NoFilter(items, i, od) ==
    IF i > Len(items) THEN od
    ELSE DurationsLoop_NoFilter(items, i + 1,
             OrderedUpdate(od, items[i][1], Attrs(items[i][1], items[i][2])))

\* The loop over state.items() of a durations mapping, lines 112-116.
RECURSIVE DurationsLoop(_, _, _)
DurationsLoop(items, i, od) ==
    IF i > Len(items) THEN od
    ELSE LET durName == items[i][1]
             durState == items[i][2]
         IN DurationsLoop(items, i + 1,
                IF durName \in DurNames
                THEN OrderedUpdate(od, durName, Attrs(durName, durState))
                ELSE od)

\* The items loop left once durations has been handled.
RECURSIVE ItemsLoop_StopAtDurations(_, _, _)
ItemsLoop_StopAtDurations(items, i, acc) ==
    IF i > Len(items) \/ acc.exc # "none" THEN acc
    ELSE LET name == items[i][1]
             state == items[i][2]
             od1 == IF name \in TopNames
                    THEN OrderedUpdate(acc.od, name, Attrs(name, state))
                    ELSE acc.od
         IN IF name = "durations"
            THEN IF state.t = "map"
                 THEN [exc |-> "none", od |-> DurationsLoop(state.items, 1, od1)]
                 ELSE [exc |-> "AttributeError", od |-> od1]
            ELSE ItemsLoop_StopAtDurations(items, i + 1, [exc |-> "none", od |-> od1])

\* The items loop without the test of line 106: every key of a robot entry is
\* recorded.
RECURSIVE ItemsLoop_EveryKey(_, _, _)
ItemsLoop_EveryKey(items, i, acc) ==
    IF i > Len(items) \/ acc.exc # "none" THEN acc
    ELSE LET name == items[i][1]
             state == items[i][2]
             od1 == OrderedUpdate(acc.od, name, Attrs(name, state))
         IN IF name = "durations"
            THEN IF state.t = "map"
                 THEN ItemsLoop_EveryKey(items, i + 1,
                          [exc |-> "none",
                           od |-> DurationsLoop(state.items, 1, od1)])
                 ELSE [exc |-> "AttributeError", od |-> od1]
            ELSE ItemsLoop_EveryKey(items, i + 1, [exc |-> "none", od |-> od1])

\* The loop over value.items() of one robot entry, lines 105-116.  acc is
\* [exc, od]: the exception raised so far ("none") and the local devices.
RECURSIVE ItemsLoop(_, _, _)
ItemsLoop(items, i, acc) ==
    IF i > Len(items) \/ acc.exc # "none" THEN acc
    ELSE LET name == items[i][1]
             state == items[i][2]
             od1 == IF name \in TopNames
                    THEN OrderedUpdate(acc.od, name, Attrs(name, state))
                    ELSE acc.od
         IN IF name = "durations"
            THEN IF state.t = "map"
                 THEN ItemsLoop(items, i + 1,
                          [exc |-> "none",
                           od |-> DurationsLoop(state.items, 1, od1)])
                 ELSE [exc |-> "AttributeError", od |-> od1]
            ELSE ItemsLoop(items, i + 1, [exc |-> "none", od |-> od1])

\* The loop over enumerate(root), lines 100-116.
RECURSIVE RootLoop(_, _, _)
RootLoop(root, idx, acc) ==
    IF idx > Len(root) \/ acc.exc # "none" THEN acc
    ELSE LET value == root[idx]
         IN IF value.t = "null" THEN RootLoop(root, idx + 1, acc)
            ELSE IF value.t # "map" THEN [exc |-> "AttributeError", od |-> acc.od]
            ELSE RootLoop(root, idx + 1, ItemsLoop(value.items, 1, acc))

\* Lines 90-116: decode, navigate, flatten into the local dict devices.
Flatten(response) ==
    IF ~response.json THEN [exc |-> "JSONDecodeError", od |-> <<>>]
    ELSE IF ~response.path THEN [exc |-> "KeyError", od |-> <<>>]
    ELSE RootLoop(response.robot, 1, [exc |-> "none", od |-> <<>>])

\* from_data without the test of line 64.
from_data_NoProg(data) == "CyclonextAttributeSensor"

\* CyclonextDevice.from_data, device.py lines 58-69: the class of a new device.
from_data(data) ==
    IF data.name \in ProgNames THEN "CyclonextProg" ELSE "CyclonextAttributeSensor"

\* for dk, dv in v.items(): self.devices[k].data[dk] = dv   (lines 122-123)
UpdateData(data, v) ==
    [dk \in (DOMAIN data) \cup (DOMAIN v) |-> IF dk \in DOMAIN v THEN v[dk] ELSE data[dk]]

\* The merge without the test of line 121: a device is built for every name.
MergeOne_Replace(reg, k, v) ==
    [devices |-> DictSet(reg.devices, k,
                     [cls |-> from_data(v), oid |-> reg.nobjs + 1, data |-> v]),
     nobjs |-> reg.nobjs + 1]

\* One iteration of the merge loop, lines 121-125.  reg is [devices, nobjs].
MergeOne(reg, k, v) ==
    IF k \in DOMAIN reg.devices
    THEN [devices |-> [reg.devices EXCEPT ![k].data = UpdateData(@, v)],
          nobjs |-> reg.nobjs]
    ELSE [devices |-> DictSet(reg.devices, k,
                          [cls |-> from_data(v), oid |-> reg.nobjs + 1, data |-> v]),
          nobjs |-> reg.nobjs + 1]

\* The merge loop over devices.items(), lines 120-125.
RECURSIVE MergeLoop(_, _, _)
MergeLoop(od, i, reg) ==
    IF i > Len(od) THEN reg
    ELSE MergeLoop(od, i + 1, MergeOne(reg, od[i][1], od[i][2]))

\* self.devices rebuilt from the document instead of merged into.
ParseShadowResponse_Rebuild(reg, response) ==
    LET flat == Flatten(response)
    IN IF flat.exc # "none"
       THEN [exc |-> flat.exc, devices |-> reg.devices, nobjs |-> reg.nobjs]
       ELSE LET m == MergeLoop(flat.od, 1, [devices |-> EmptyDict, nobjs |-> reg.nobjs])
            IN [exc |-> "none", devices |-> m.devices, nobjs |-> m.nobjs]

\* Each pair written to self.devices as it is read, with no local dict in
\* between: what precedes the failure is merged.
ParseShadowResponse_MergeAsRead(reg, response) ==
    LET flat == Flatten(response)
        m == MergeLoop(flat.od, 1, reg)
    IN [exc |-> flat.exc, devices |-> m.devices, nobjs |-> m.nobjs]

\* _parse_shadow_response as a whole: the exception it raises ("none" when
\* it returns) and the registry it leaves.
ParseShadowResponse(reg, response) ==
    LET flat == Flatten(response)
    IN IF flat.exc # "none"
       THEN [exc |-> flat.exc, devices |-> reg.devices, nobjs |-> reg.nobjs]
       ELSE LET m == MergeLoop(flat.od, 1, reg)
            IN [exc |-> "none", devices |-> m.devices, nobjs |-> m.nobjs]

-----------------------------------------------------------------------------
(* The documents the transport delivers.                                   *)

\* Another value of 1..MaxVal than v.
OtherVal(v) == (v % MaxVal) + 1

\* The record of a robot with every evaluated attribute and one that is not.
FullEntry(v) ==
    Map(<< <<"mode", Num(v)>>, <<"cycle", Num(OtherVal(v))>>,
           <<"cycleStartTime", Num(v)>>,
           <<"durations", Map(<< <<"quickTim", Num(OtherVal(v))>>,
                                 <<"deepTim", Num(v)>>,
                                 <<"stepper", Num(OtherVal(v))>>,
                                 <<"ignored", Num(v)>> >>)>> >>)

ModeEntry(v) == Map(<< <<"mode", Num(v)>> >>)

\* Evaluated names at the wrong nesting level, and names that are not evaluated.
NestedEntry(v) ==
    Map(<< <<"durations", Map(<< <<"stepper", Num(v)>>, <<"mode", Num(OtherVal(v))>> >>)>>,
           <<"quickTim", Num(v)>>, <<"other", Num(v)>> >>)

\* durations is not a mapping: state.items() raises AttributeError.
BadDurationsEntry(v) == Map(<< <<"mode", Num(v)>>, <<"durations", Num(v)>> >>)

Entries ==
    {Null, Num(1)}
        \cup {FullEntry(v) : v \in Vals} \cup {ModeEntry(v) : v \in Vals}
        \cup {NestedEntry(v) : v \in Vals} \cup {BadDurationsEntry(v) : v \in Vals}

RobotSeqs(n) == UNION {[1 .. k -> Entries] : k \in 0 .. n}

Undecodable == Response(FALSE, FALSE, <<>>, FALSE)
NoPath == Response(TRUE, FALSE, <<>>, FALSE)

\* The documents handed to _parse_shadow_response directly.
ParseDocs ==
    {Response(TRUE, TRUE, robot, FALSE) : robot \in RobotSeqs(MaxRobots)}
        \cup {Undecodable, NoPath}

\* The documents a fetch returns to update.
FetchResponses ==
    {Response(TRUE, TRUE, <<ModeEntry(v)>>, FALSE) : v \in Vals}
        \cup {Response(TRUE, TRUE, <<ModeEntry(1)>>, TRUE),
              Response(TRUE, TRUE, <<Null, NestedEntry(1)>>, FALSE),
              Response(TRUE, TRUE, <<FullEntry(1)>>, FALSE),
              Response(TRUE, TRUE, <<BadDurationsEntry(1)>>, FALSE),
              Undecodable, NoPath}

-----------------------------------------------------------------------------
(* iaqualink.exception: the classes update and send_devices_request catch. *)

IsInstance(exc, class) ==
    \/ exc = class
    \/ /\ class = "AqualinkServiceException"
       /\ exc = "AqualinkServiceUnauthorizedException"

\* What AqualinkClient.send_request and AqualinkClient.login raise.
TransportErrors == {"AqualinkServiceException", "AqualinkServiceUnauthorizedException"}

-----------------------------------------------------------------------------
(* The coroutines.                                                         *)

StartClock == MIN_SECS_TO_REFRESH

\* pc is the await the coroutine is suspended at, hdr the credential of the
\* request it sent last, seen the last_refresh it read at line 69.
IdleCall == [pc |-> "idle", op |-> "-", hdr |-> 0, nreq |-> 0, nlogin |-> 0, seen |-> 0]

\* The step just taken: op is what coroutine call did ("throttled", "request",
\* "login", "retry", "return", "raise"), of is the operation it runs, at is
\* the await it resumed from, got is what that await delivered, exc is the
\* exception that left the operation, doc holds the response handed to
\* update, nreq and nlogin count the send_request and login calls made.
\* after tells how the last refresh to end has ended, until the next refresh
\* begins: "error" when it ended in an error and no refresh has succeeded
\* since it read last_refresh, "overtaken" when it ended in an error and one
\* has, "-" otherwise; "resumed" once a refresh has begun after "error".
EventRecord(op, c, of, at, got, exc, doc, nreq, nlogin, after) ==
    [op |-> op, call |-> c, of |-> of, at |-> at, got |-> got, exc |-> exc,
     doc |-> doc, nreq |-> nreq, nlogin |-> nlogin, had |-> 0, after |-> after,
     data |-> <<>>, made |-> "-", late |-> FALSE]

Event(op, c, of, at, got, exc, doc, nreq, nlogin) ==
    EventRecord(op, c, of, at, got, exc, doc, nreq, nlogin, ev.after)

\* The event of a step in which a refresh begins.
Begins(e) == [e EXCEPT !.after = IF @ = "error" THEN "resumed" ELSE "-"]

\* The event of a step in which the refresh of coroutine c ends in an error.
EndsInError(e, c) ==
    [e EXCEPT !.after = IF calls[c].seen = last_refresh THEN "error" ELSE "overtaken"]

\* The event of a step in which the refresh of coroutine c merges a document:
\* late when another refresh has written last_refresh since c read it.
Merges(e, c) == [e EXCEPT !.late = (calls[c].seen # last_refresh)]

\* The event of a step in which a refresh ends with last_refresh written.
EndsStamped(e) ==
    [e EXCEPT !.after = IF @ \in {"error", "overtaken"} THEN "overtaken" ELSE "-"]

\* The event of a step that ran _parse_shadow_response: had is the number of
\* devices the registry held before.
ParseEvent(e, had) == [e EXCEPT !.had = had]

NoDoc == <<>>

\* AqualinkSystem.__init__ and CyclonextSystem.__init__, lines 31-35.
Init ==
    /\ clock = StartClock
    /\ last_refresh = 0
    /\ online = "None"
    /\ devices = EmptyDict
    /\ nobjs = 0
    /\ id_token = 0
    /\ calls = [c \in Calls |-> IdleCall]
    /\ ev = EventRecord("init", "-", "-", "-", "-", "none", NoDoc, 0, 0, "-")

\* time.time() advances.
Tick ==
    /\ clock < MaxClock
    /\ clock' = clock + 1
    /\ ev' = Event("tick", "-", "-", "-", "-", "none", NoDoc, 0, 0)
    /\ UNCHANGED <<last_refresh, online, devices, nobjs, id_token, calls>>

\* update, lines 68-72: fewer than MIN_SECS_TO_REFRESH seconds since last_refresh.
UpdateThrottled(c) ==
    /\ calls[c].pc = "idle"
    /\ LET now == clock
           delta == now - last_refresh
       IN delta < MIN_SECS_TO_REFRESH
    /\ ev' = Begins(Event("throttled", c, "update", "idle", "-", "none", NoDoc, 0, 0))
    /\ UNCHANGED <<clock, last_refresh, online, devices, nobjs, id_token, calls>>

\* update without the test of line 70.
UpdateRequest_NoThrottle(c) ==
    /\ calls[c].pc = "idle"
    /\ calls' = [calls EXCEPT ![c] =
                    [pc |-> "request", op |-> "update", hdr |-> id_token,
                     nreq |-> 1, nlogin |-> 0, seen |-> last_refresh]]
    /\ ev' = Begins(Event("request", c, "update", "idle", "-", "none", NoDoc, 1, 0))
    /\ UNCHANGED <<clock, last_refresh, online, devices, nobjs, id_token>>

\* update under a lock: no refresh begins while another is in progress.
UpdateRequest_Exclusive(c) ==
    /\ calls[c].pc = "idle"
    /\ \A d \in Calls : calls[d].op # "update"
    /\ LET now == clock
           delta == now - last_refresh
       IN ~(delta < MIN_SECS_TO_REFRESH)
    /\ calls' = [calls EXCEPT ![c] =
                    [pc |-> "request", op |-> "update", hdr |-> id_token,
                     nreq |-> 1, nlogin |-> 0, seen |-> last_refresh]]
    /\ ev' = Begins(Event("request", c, "update", "idle", "-", "none", NoDoc, 1, 0))
    /\ UNCHANGED <<clock, last_refresh, online, devices, nobjs, id_token>>

\* update, lines 68-75, into send_devices_request, lines 43-47: the first
\* send_request is awaited with the current id_token.
UpdateRequest(c) ==
    /\ calls[c].pc = "idle"
    /\ LET now == clock
           delta == now - last_refresh
       IN ~(delta < MIN_SECS_TO_REFRESH)
    /\ calls' = [calls EXCEPT ![c] =
                    [pc |-> "request", op |-> "update", hdr |-> id_token,
                     nreq |-> 1, nlogin |-> 0, seen |-> last_refresh]]
    /\ ev' = Begins(Event("request", c, "update", "idle", "-", "none", NoDoc, 1, 0))
    /\ UNCHANGED <<clock, last_refresh, online, devices, nobjs, id_token>>

\* send_desired_state_request, lines 59-64, into send_devices_request.
DesiredRequest(c) ==
    /\ calls[c].pc = "idle"
    /\ calls' = [calls EXCEPT ![c] =
                    [pc |-> "request", op |-> "desired", hdr |-> id_token,
                     nreq |-> 1, nlogin |-> 0, seen |-> 0]]
    /\ ev' = Event("request", c, "desired", "idle", "-", "none", NoDoc, 1, 0)
    /\ UNCHANGED <<clock, last_refresh, online, devices, nobjs, id_token>>

\* The handler of lines 76-78 around every send_devices_request, not only the
\* one update makes.
Raise_AnyCaller(c, exc) ==
    /\ online' = IF IsInstance(exc, "AqualinkServiceException") THEN "None" ELSE online
    /\ calls' = [calls EXCEPT ![c] = IdleCall]
    /\ ev' = LET e == Event("raise", c, calls[c].op, calls[c].pc, exc, exc, NoDoc,
                            calls[c].nreq, calls[c].nlogin)
             IN IF calls[c].op = "update" THEN EndsInError(e, c) ELSE e
    /\ UNCHANGED <<clock, last_refresh, devices, nobjs, id_token>>

\* last_refresh written on the way out of update whatever the outcome, as in
\* a finally clause.
Raise_Stamped(c, exc) ==
    /\ online' = IF calls[c].op = "update" /\ IsInstance(exc, "AqualinkServiceException")
                 THEN "None" ELSE online
    /\ last_refresh' = IF calls[c].op = "update" THEN clock ELSE last_refresh
    /\ calls' = [calls EXCEPT ![c] = IdleCall]
    /\ ev' = LET e == Event("raise", c, calls[c].op, calls[c].pc, exc, exc, NoDoc,
                            calls[c].nreq, calls[c].nlogin)
             IN IF calls[c].op = "update" THEN EndsInError(e, c) ELSE e
    /\ UNCHANGED <<clock, devices, nobjs, id_token>>

\* An exception leaves send_devices_request in coroutine c.  In update,
\* lines 76-78 catch AqualinkServiceException, set online to None and re-raise;
\* send_desired_state_request lets it pass.
Raise(c, exc) ==
    /\ online' = IF calls[c].op = "update" /\ IsInstance(exc, "AqualinkServiceException")
                 THEN "None" ELSE online
    /\ calls' = [calls EXCEPT ![c] = IdleCall]
    /\ ev' = LET e == Event("raise", c, calls[c].op, calls[c].pc, exc, exc, NoDoc,
                            calls[c].nreq, calls[c].nlogin)
             IN IF calls[c].op = "update" THEN EndsInError(e, c) ELSE e
    /\ UNCHANGED <<clock, last_refresh, devices, nobjs, id_token>>

\* Lines 86-87 moved before the parse: the refresh is stamped whatever the
\* parse does.
UpdateParse_StampFirst(c, r) ==
    LET p == ParseShadowResponse([devices |-> devices, nobjs |-> nobjs], r)
    IN /\ devices' = p.devices
       /\ nobjs' = p.nobjs
       /\ online' = IF p.exc = "AqualinkSystemOfflineException" THEN "False" ELSE "True"
       /\ last_refresh' = clock
       /\ calls' = [calls EXCEPT ![c] = IdleCall]
       /\ ev' = EndsStamped(
                    ParseEvent(Event(IF p.exc = "none" THEN "return" ELSE "raise", c,
                                     "update", calls[c].pc, "response", p.exc, <<r>>,
                                     calls[c].nreq, calls[c].nlogin),
                               Cardinality(DOMAIN devices)))
       /\ UNCHANGED <<clock, id_token>>

\* An await between the parse and lines 86-87: the coroutine is suspended with
\* the registry merged and online and last_refresh not yet written.
UpdateParse_AwaitAfterMerge(c, r) ==
    LET p == ParseShadowResponse([devices |-> devices, nobjs |-> nobjs], r)
    IN /\ devices' = p.devices
       /\ nobjs' = p.nobjs
       /\ calls' = [calls EXCEPT ![c] = IF p.exc = "none" THEN [@ EXCEPT !.pc = "merged"]
                                        ELSE IdleCall]
       /\ ev' = LET e == ParseEvent(Event(IF p.exc = "none" THEN "merged" ELSE "raise",
                                          c, "update", calls[c].pc, "response", p.exc,
                                          <<r>>, calls[c].nreq, calls[c].nlogin),
                                    Cardinality(DOMAIN devices))
                IN IF p.exc = "none" THEN e ELSE EndsInError(e, c)
       /\ UNCHANGED <<clock, id_token, online, last_refresh>>

\* update, lines 80-87, once send_reported_state_request has returned r.
UpdateParse(c, r) ==
    LET p == ParseShadowResponse([devices |-> devices, nobjs |-> nobjs], r)
    IN /\ devices' = p.devices
       /\ nobjs' = p.nobjs
       /\ online' = IF p.exc = "AqualinkSystemOfflineException" THEN "False"
                    ELSE IF p.exc = "none" THEN "True" ELSE online
       /\ last_refresh' = IF p.exc = "none" THEN clock ELSE last_refresh
       /\ calls' = [calls EXCEPT ![c] = IdleCall]
       /\ ev' = LET e == ParseEvent(Event(IF p.exc = "none" THEN "return" ELSE "raise",
                                          c, "update", calls[c].pc, "response", p.exc,
                                          <<r>>, calls[c].nreq, calls[c].nlogin),
                                    Cardinality(DOMAIN devices))
                IN IF p.exc = "none" THEN Merges(EndsStamped(e), c)
                   ELSE EndsInError(e, c)
       /\ UNCHANGED <<clock, id_token>>

\* send_request returns a response to update: line 47 or line 52, then 54.
FetchOk(c, r) ==
    /\ calls[c].pc \in {"request", "retry"}
    /\ calls[c].op = "update"
    /\ UpdateParse(c, r)

\* send_request returns a response to send_desired_state_request.
DesiredOk(c) ==
    /\ calls[c].pc \in {"request", "retry"}
    /\ calls[c].op = "desired"
    /\ calls' = [calls EXCEPT ![c] = IdleCall]
    /\ ev' = Event("return", c, "desired", calls[c].pc, "response", "none", NoDoc,
                   calls[c].nreq, calls[c].nlogin)
    /\ UNCHANGED <<clock, last_refresh, online, devices, nobjs, id_token>>

\* The except clause of line 48 around the second send_request as well.
RequestUnauthorized_AnyAttempt(c) ==
    /\ calls[c].pc \in {"request", "retry"}
    /\ calls' = [calls EXCEPT ![c].pc = "login", ![c].nlogin = @ + 1]
    /\ ev' = Event("login", c, calls[c].op, calls[c].pc,
                   "AqualinkServiceUnauthorizedException", "none", NoDoc,
                   calls[c].nreq, calls[c].nlogin + 1)
    /\ UNCHANGED <<clock, last_refresh, online, devices, nobjs, id_token>>

\* Lines 47-50: the first send_request raises
\* AqualinkServiceUnauthorizedException; login is awaited.
RequestUnauthorized(c) ==
    /\ calls[c].pc = "request"
    /\ calls' = [calls EXCEPT ![c].pc = "login", ![c].nlogin = @ + 1]
    /\ ev' = Event("login", c, calls[c].op, "request",
                   "AqualinkServiceUnauthorizedException", "none", NoDoc,
                   calls[c].nreq, calls[c].nlogin + 1)
    /\ UNCHANGED <<clock, last_refresh, online, devices, nobjs, id_token>>

\* Line 48 catching AqualinkServiceException: any failure leads to login.
RequestFails_Login(c) ==
    /\ calls[c].pc = "request"
    /\ calls' = [calls EXCEPT ![c].pc = "login", ![c].nlogin = @ + 1]
    /\ ev' = Event("login", c, calls[c].op, "request", "AqualinkServiceException",
                   "none", NoDoc, calls[c].nreq, calls[c].nlogin + 1)
    /\ UNCHANGED <<clock, last_refresh, online, devices, nobjs, id_token>>

\* Line 47: the first send_request raises another AqualinkServiceException,
\* which line 48 does not catch.
RequestFails(c) ==
    /\ calls[c].pc = "request"
    /\ Raise(c, "AqualinkServiceException")

\* Without line 51: the second send_request goes out with the headers built at
\* line 44.
LoginOk_StaleHeader(c) ==
    /\ calls[c].pc = "login"
    /\ id_token < MaxToken
    /\ id_token' = id_token + 1
    /\ calls' = [calls EXCEPT ![c].pc = "retry", ![c].nreq = @ + 1]
    /\ ev' = Event("retry", c, calls[c].op, "login", "token", "none", NoDoc,
                   calls[c].nreq + 1, calls[c].nlogin)
    /\ UNCHANGED <<clock, last_refresh, online, devices, nobjs>>

\* Lines 50-52: login returns with a new id_token; the request is sent again
\* with it.
LoginOk(c) ==
    /\ calls[c].pc = "login"
    /\ id_token < MaxToken
    /\ id_token' = id_token + 1
    /\ calls' = [calls EXCEPT ![c].pc = "retry", ![c].hdr = id_token + 1,
                              ![c].nreq = @ + 1]
    /\ ev' = Event("retry", c, calls[c].op, "login", "token", "none", NoDoc,
                   calls[c].nreq + 1, calls[c].nlogin)
    /\ UNCHANGED <<clock, last_refresh, online, devices, nobjs>>

\* The failure of login swallowed: the second send_request goes out anyway.
LoginFails_Retry(c, exc) ==
    /\ calls[c].pc = "login"
    /\ calls' = [calls EXCEPT ![c].pc = "retry", ![c].nreq = @ + 1]
    /\ ev' = Event("retry", c, calls[c].op, "login", exc, "none", NoDoc,
                   calls[c].nreq + 1, calls[c].nlogin)
    /\ UNCHANGED <<clock, last_refresh, online, devices, nobjs, id_token>>

\* Line 50: login raises; nothing in send_devices_request catches it.
LoginFails(c, exc) ==
    /\ calls[c].pc = "login"
    /\ Raise(c, exc)

\* The second send_request answered like the first: login once more when it
\* is refused as unauthorized.
RetryFails_LoginAgain(c, exc) ==
    /\ calls[c].pc = "retry"
    /\ IF exc = "AqualinkServiceUnauthorizedException"
       THEN /\ calls' = [calls EXCEPT ![c].pc = "login", ![c].nlogin = @ + 1]
            /\ ev' = Event("login", c, calls[c].op, "retry", exc, "none", NoDoc,
                           calls[c].nreq, calls[c].nlogin + 1)
            /\ UNCHANGED <<clock, last_refresh, online, devices, nobjs, id_token>>
       ELSE Raise(c, exc)

\* Line 52: the second send_request raises; nothing in
\* send_devices_request catches it.
RetryFails(c, exc) ==
    /\ calls[c].pc = "retry"
    /\ Raise(c, exc)

Next ==
    \/ Tick
    \/ \E c \in Calls : UpdateThrottled(c)
    \/ \E c \in Calls : UpdateRequest(c)
    \/ \E c \in Calls : DesiredRequest(c)
    \/ \E c \in Calls, r \in FetchResponses : FetchOk(c, r)
    \/ \E c \in Calls : DesiredOk(c)
    \/ \E c \in Calls : RequestUnauthorized(c)
    \/ \E c \in Calls : RequestFails(c)
    \/ \E c \in Calls : LoginOk(c)
    \/ \E c \in Calls, exc \in TransportErrors : LoginFails(c, exc)
    \/ \E c \in Calls, exc \in TransportErrors : RetryFails(c, exc)

Spec == Init /\ [][Next]_vars

-----------------------------------------------------------------------------
(* _parse_shadow_response called on its own, on a registry left by an      *)
(* earlier parse.                                                          *)

EmptyReg == [devices |-> EmptyDict, nobjs |-> 0]

\* AqualinkDevice.data is a plain dict: whoever holds the device can store
\* further keys in it.
WithExtra(reg) ==
    [devices |-> [k \in DOMAIN reg.devices |->
                    [reg.devices[k] EXCEPT !.data =
                        [x \in (DOMAIN @) \cup {"extra"} |->
                            IF x = "extra" THEN @.state ELSE @[x]]]],
     nobjs |-> reg.nobjs]

ParsedOnce ==
    {ParseShadowResponse(EmptyReg, Response(TRUE, TRUE, <<e>>, FALSE)) :
        e \in {FullEntry(v) : v \in Vals} \cup {ModeEntry(v) : v \in Vals}
                \cup {NestedEntry(v) : v \in Vals}}

InitRegs ==
    {EmptyReg} \cup {[devices |-> p.devices, nobjs |-> p.nobjs] : p \in ParsedOnce}
        \cup {WithExtra(p) : p \in ParsedOnce}

InitParse ==
    /\ clock = StartClock
    /\ last_refresh = 0
    /\ online = "None"
    /\ \E reg \in InitRegs : devices = reg.devices /\ nobjs = reg.nobjs
    /\ id_token = 0
    /\ calls = [c \in Calls |-> IdleCall]
    /\ \E r \in ParseDocs :
          ev = EventRecord("input", "-", "parse", "-", "-", "none", <<r>>, 0, 0, "-")

\* self._parse_shadow_response(r), lines 89-125.
ParseCall ==
    /\ ev.op = "input" /\ ev.of = "parse"
    /\ LET p == ParseShadowResponse([devices |-> devices, nobjs |-> nobjs], ev.doc[1])
       IN /\ devices' = p.devices
          /\ nobjs' = p.nobjs
          /\ ev' = ParseEvent(Event(IF p.exc = "none" THEN "return" ELSE "raise", "-",
                                    "parse", "-", "-", p.exc, ev.doc, 0, 0),
                              Cardinality(DOMAIN devices))
    /\ UNCHANGED <<clock, last_refresh, online, id_token, calls>>

NextParse == ParseCall

SpecParse == InitParse /\ [][NextParse]_vars

-----------------------------------------------------------------------------
(* CyclonextDevice.from_data called on its own, next to the parse.         *)

\* The names a caller can put in the data it hands to from_data.
FactoryNames == TopNames \cup DurNames \cup ProgNames \cup {"sns_1", "other"}

FactoryData == {Attrs(n, Num(v)) : n \in FactoryNames, v \in Vals}

\* The arguments of the call to come.
FactoryInput(d) == [EventRecord("input", "-", "from_data", "-", "-", "none", NoDoc, 0, 0, "-")
                       EXCEPT !.data = <<d>>]

InitFactory ==
    /\ clock = StartClock
    /\ last_refresh = 0
    /\ online = "None"
    /\ \E reg \in InitRegs : devices = reg.devices /\ nobjs = reg.nobjs
    /\ id_token = 0
    /\ calls = [c \in Calls |-> IdleCall]
    /\ \/ \E d \in FactoryData : ev = FactoryInput(d)
       \/ \E r \in ParseDocs :
             ev = EventRecord("input", "-", "parse", "-", "-", "none", <<r>>, 0, 0, "-")

\* CyclonextDevice.from_data(system, data), device.py lines 58-69: a device of
\* the class chosen is constructed and returned; the registry is not touched.
FromDataCall ==
    /\ ev.op = "input" /\ ev.of = "from_data"
    /\ nobjs' = nobjs + 1
    /\ ev' = [Event("return", "-", "from_data", "-", "-", "none", NoDoc, 0, 0)
                 EXCEPT !.data = ev.data, !.made = from_data(ev.data[1])]
    /\ UNCHANGED <<clock, last_refresh, online, devices, id_token, calls>>

NextFactory ==
    \/ FromDataCall
    \/ ParseCall

SpecFactory == InitFactory /\ [][NextFactory]_vars


-----------------------------------------------------------------------------
(* What a document says, read off its structure.                           *)

\* The document decodes, has the robot path, every robot entry is null or a
\* mapping, and every durations value is a mapping.
WellFormed(r) ==
    /\ r.json
    /\ r.path
    /\ \A i \in 1 .. Len(r.robot) :
          \/ r.robot[i].t = "null"
          \/ /\ r.robot[i].t = "map"
             /\ \A j \in 1 .. Len(r.robot[i].items) :
                   r.robot[i].items[j][1] = "durations"
                       => r.robot[i].items[j][2].t = "map"

\* The states a durations mapping d gives for name n.
DurStates(d, n) ==
    {d.items[m][2] : m \in {x \in 1 .. Len(d.items) : d.items[x][1] = n /\ n \in DurNames}}

\* The states robot entry e gives for name n at the level where n is evaluated.
EntryStates(e, n) ==
    IF e.t # "map" THEN {}
    ELSE {e.items[j][2] :
            j \in {x \in 1 .. Len(e.items) : e.items[x][1] = n /\ n \in TopNames}}
         \cup UNION {DurStates(e.items[j][2], n) :
                j \in {x \in 1 .. Len(e.items) :
                          e.items[x][1] = "durations" /\ e.items[x][2].t = "map"}}

DocStates(r, n) == UNION {EntryStates(r.robot[i], n) : i \in 1 .. Len(r.robot)}

DocNames(r) == {n \in TopNames \cup DurNames : DocStates(r, n) # {}}

-----------------------------------------------------------------------------
(* C1: a refresh begun less than MIN_SECS_TO_REFRESH whole seconds after   *)
(* last_refresh returns normally, sends no request, performs no login and  *)
(* leaves online, last_refresh and the registry as they were.              *)
C1_ThrottledRefreshIsNoOp ==
    [][\A c \in Calls :
          (/\ calls[c].pc = "idle"
           /\ clock - last_refresh < MIN_SECS_TO_REFRESH
           /\ ev'.call = c /\ ev'.of = "update" /\ ev'.at = "idle")
          => (/\ ev'.op = "throttled" /\ ev'.exc = "none"
              /\ ev'.nreq = 0 /\ ev'.nlogin = 0
              /\ calls' = calls
              /\ UNCHANGED <<online, last_refresh, devices, nobjs, id_token>>)]_vars

\* A refresh was throttled after an earlier one had succeeded and filled the registry.
C1_Witness ==
    /\ ev.op = "throttled"
    /\ last_refresh > 0
    /\ online = "True"
    /\ devices # EmptyDict

(* C2: no call performs more than one login or more than two requests, and *)
(* a refresh whose first request is refused as unauthorized and whose       *)
(* retry returns a well-formed document returns with online = True after    *)
(* exactly one login.                                                       *)
C2_OneLoginTwoRequests ==
    /\ \A c \in Calls : calls[c].nlogin <= 1 /\ calls[c].nreq <= 2
    /\ ev.nlogin <= 1 /\ ev.nreq <= 2
    /\ (ev.of = "update" /\ ev.at = "retry" /\ ev.got = "response"
            /\ WellFormed(ev.doc[1]))
       => (ev.op = "return" /\ ev.exc = "none" /\ online = "True"
              /\ ev.nlogin = 1 /\ ev.nreq = 2)

\* A refresh returned after unauthorized, login, and a well-formed document.
C2_Witness ==
    /\ ev.of = "update" /\ ev.at = "retry" /\ ev.got = "response"
    /\ WellFormed(ev.doc[1])
    /\ ev.op = "return" /\ ev.nlogin = 1 /\ online = "True"

(* C3: when the retried request of a refresh is refused as unauthorized     *)
(* too, the refresh ends there: no third request, no second login, a        *)
(* service error reaches the caller, online becomes None, last_refresh and  *)
(* the registry are unchanged.                                              *)
C3_SecondUnauthorizedPropagates ==
    [][\A c \in Calls :
          (/\ calls[c].op = "update" /\ calls[c].pc = "retry"
           /\ ev'.call = c
           /\ ev'.got = "AqualinkServiceUnauthorizedException")
          => (/\ ev'.op = "raise"
              /\ IsInstance(ev'.exc, "AqualinkServiceException")
              /\ calls'[c] = IdleCall
              /\ ev'.nreq = 2 /\ ev'.nlogin = 1
              /\ online' = "None"
              /\ UNCHANGED <<last_refresh, devices, nobjs>>)]_vars

\* The second unauthorized answer of a refresh reached the caller, after an
\* earlier refresh had succeeded.
C3_Witness ==
    /\ ev.of = "update" /\ ev.at = "retry" /\ ev.op = "raise"
    /\ ev.exc = "AqualinkServiceUnauthorizedException"
    /\ ev.nreq = 2 /\ ev.nlogin = 1
    /\ online = "None"
    /\ last_refresh > 0 /\ devices # EmptyDict

(* C4: when the first request of a refresh fails with a service error that  *)
(* is not unauthorized, there is no login and no retry, the error reaches   *)
(* the caller, online becomes None and nothing else changes.                *)
C4_ServiceErrorPropagates ==
    [][\A c \in Calls :
          (/\ calls[c].op = "update" /\ calls[c].pc = "request"
           /\ ev'.call = c
           /\ ev'.got = "AqualinkServiceException")
          => (/\ ev'.op = "raise"
              /\ ev'.exc = "AqualinkServiceException"
              /\ ev'.nreq = 1 /\ ev'.nlogin = 0
              /\ calls' = [calls EXCEPT ![c] = IdleCall]
              /\ online' = "None"
              /\ UNCHANGED <<clock, last_refresh, devices, nobjs, id_token>>)]_vars

\* A first request failed with a service error after an earlier refresh had
\* succeeded.
C4_Witness ==
    /\ ev.of = "update" /\ ev.at = "request" /\ ev.op = "raise"
    /\ ev.exc = "AqualinkServiceException"
    /\ online = "None"
    /\ last_refresh > 0 /\ devices # EmptyDict

(* C6: last_refresh changes only in the step of a refresh whose request     *)
(* returned a document that parses; that step sets online to True and       *)
(* last_refresh to the current time; a refresh that is throttled or ends    *)
(* in an error leaves last_refresh as it was.                               *)
C6_TimestampOnlyOnSuccess ==
    [][/\ (last_refresh' # last_refresh)
            => (/\ ev'.of = "update" /\ ev'.got = "response"
                /\ ev'.op = "return" /\ ev'.exc = "none"
                /\ WellFormed(ev'.doc[1]))
       /\ (ev'.of = "update" /\ ev'.got = "response" /\ WellFormed(ev'.doc[1]))
            => (ev'.op = "return" /\ online' = "True" /\ last_refresh' = clock')
       /\ (ev'.of = "update" /\ ev'.op \in {"raise", "throttled"})
            => (last_refresh' = last_refresh)]_vars

\* A successful refresh moved last_refresh forward from an earlier refresh.
C6_Witness ==
    /\ ev.of = "update" /\ ev.op = "return"
    /\ online = "True"
    /\ last_refresh = clock
    /\ last_refresh > StartClock

(* C5: when the request succeeds and the response says the system is      *)
(* offline, the refresh sets online to False, raises                        *)
(* AqualinkSystemOfflineException, and leaves last_refresh and the registry *)
(* as they were.                                                            *)
C5_OfflineResponseSetsOnlineFalse ==
    [][(ev'.of = "update" /\ ev'.got = "response" /\ ev'.doc[1].unreachable)
          => (/\ ev'.op = "raise"
              /\ ev'.exc = "AqualinkSystemOfflineException"
              /\ online' = "False"
              /\ UNCHANGED <<last_refresh, devices, nobjs>>)]_vars

(* C7: no step removes a name from the registry, and a device whose name    *)
(* the parsed document does not give (or that exists when a step parses no  *)
(* document at all) is left exactly as it was.                              *)
C7_RegistryNeverShrinks ==
    [][\A n \in DOMAIN devices :
          /\ n \in DOMAIN devices'
          /\ (~(ev'.of = "update" /\ ev'.got = "response")
                 \/ n \notin DocNames(ev'.doc[1]))
             => devices'[n] = devices[n]]_vars

\* A refresh merged a document that does not give a name the registry holds.
C7_Witness ==
    /\ ev.of = "update" /\ ev.op = "return"
    /\ ev.had > 0
    /\ DocNames(ev.doc[1]) # {}
    /\ \E n \in DOMAIN devices : n \notin DocNames(ev.doc[1])

(* C8: parsing a well-formed document into an empty registry raises nothing *)
(* and leaves exactly one device for each evaluated name the document gives *)
(* at its level, named after it, with a state the document gives for it;    *)
(* null entries, other keys and names at the wrong level add nothing.       *)
C8_ParseIntoEmptyRegistry ==
    [][(ev.op = "input" /\ ev'.op # "input" /\ devices = EmptyDict
            /\ WellFormed(ev.doc[1]))
          => (/\ ev'.op = "return" /\ ev'.exc = "none"
              /\ DOMAIN devices' = DocNames(ev.doc[1])
              /\ nobjs' = Cardinality(DocNames(ev.doc[1]))
              /\ \A n \in DOMAIN devices' :
                    /\ DOMAIN devices'[n].data = {"name", "state"}
                    /\ devices'[n].data.name = n
                    /\ devices'[n].data.state \in DocStates(ev.doc[1], n)
                    /\ \A m \in DOMAIN devices' :
                          m # n => devices'[m].oid # devices'[n].oid)]_vars

\* A document with a null entry and an entry giving all six names (and one
\* that is not evaluated) was parsed into the empty registry.
C8_Witness ==
    /\ ev.of = "parse" /\ ev.op = "return" /\ ev.had = 0
    /\ \E i \in 1 .. Len(ev.doc[1].robot) : ev.doc[1].robot[i] = Null
    /\ DOMAIN devices = TopNames \cup DurNames

(* C9: when a parse delivers a name the registry already holds, the device  *)
(* object stays (same identity and class, no new object), its state becomes *)
(* the state the document gives, and every other key of its data keeps its  *)
(* value.                                                                   *)
C9_ExistingDeviceUpdatedInPlace ==
    [][(ev.op = "input" /\ ev'.op # "input" /\ WellFormed(ev.doc[1]))
          => (/\ nobjs' = nobjs + Cardinality(DocNames(ev.doc[1]) \ DOMAIN devices)
              /\ \A n \in (DOMAIN devices) \cap DocNames(ev.doc[1]) :
                    /\ devices'[n].oid = devices[n].oid
                    /\ devices'[n].cls = devices[n].cls
                    /\ devices'[n].data.state \in DocStates(ev.doc[1], n)
                    /\ DOMAIN devices'[n].data = DOMAIN devices[n].data
                    /\ \A k \in (DOMAIN devices[n].data) \ {"state"} :
                          devices'[n].data[k] = devices[n].data[k])]_vars

\* A device that carries a further key was given a new state by a parse.
C9_Witness ==
    /\ ev.of = "parse" /\ ev.op = "return" /\ ev.had > 0
    /\ \E n \in (DOMAIN devices) \cap DocNames(ev.doc[1]) :
          /\ "extra" \in DOMAIN devices[n].data
          /\ devices[n].data.extra # devices[n].data.state
          /\ DocStates(ev.doc[1], n) = {devices[n].data.state}

-----------------------------------------------------------------------------
(* Rearrangements of a document.                                           *)

Perms(n) == {p \in [1 .. n -> 1 .. n] : \A i, j \in 1 .. n : i # j => p[i] # p[j]}

PermuteSeq(s, p) == [i \in 1 .. Len(s) |-> s[p[i]]]

\* The (name, state) pairs of a registry.
Pairs(devs) == {<<n, devs[n].data.state>> : n \in DOMAIN devs}

\* The pairs the registry holds after r has been parsed in the current state.
PairsAfter(r) ==
    Pairs(ParseShadowResponse([devices |-> devices, nobjs |-> nobjs], r).devices)

\* Every document got from r by permuting the robot sequence gives result.
RobotOrderIrrelevant(r, result) ==
    \A p \in Perms(Len(r.robot)) :
        PairsAfter([r EXCEPT !.robot = PermuteSeq(@, p)]) = result

\* Every document got from r by permuting the keys of one mapping, a robot
\* entry or a durations mapping, gives result.
KeyOrderIrrelevant(r, result) ==
    \A i \in 1 .. Len(r.robot) :
        r.robot[i].t = "map" =>
            /\ \A p \in Perms(Len(r.robot[i].items)) :
                  PairsAfter([r EXCEPT !.robot[i].items = PermuteSeq(@, p)]) = result
            /\ \A j \in 1 .. Len(r.robot[i].items) :
                  r.robot[i].items[j][2].t = "map" =>
                      \A p \in Perms(Len(r.robot[i].items[j][2].items)) :
                          PairsAfter([r EXCEPT !.robot[i].items[j][2].items =
                                                  PermuteSeq(@, p)]) = result

\* No name is given two different states by the document.
SingleValued(r) == \A n \in TopNames \cup DurNames : Cardinality(DocStates(r, n)) <= 1

(* C10 as stated: the pairs a parse leaves in the registry are the pairs    *)
(* every rearrangement of the document, of its robot sequence or of the     *)
(* keys of a mapping, would have left.                                      *)
C10_OrderIndependent ==
    [][(ev.op = "input" /\ ev'.op # "input")
          => (/\ RobotOrderIrrelevant(ev.doc[1], Pairs(devices'))
              /\ KeyOrderIrrelevant(ev.doc[1], Pairs(devices')))]_vars

(* C10 as amended: the pairs a parse leaves in the registry do not depend   *)
(* on the order of the keys inside any mapping, and do not depend on the    *)
(* order of the robot sequence when no evaluated name is given different    *)
(* states by the document.                                                  *)
C10_OrderIndependentAmended ==
    [][(ev.op = "input" /\ ev'.op # "input")
          => (/\ KeyOrderIrrelevant(ev.doc[1], Pairs(devices'))
              /\ SingleValued(ev.doc[1])
                    => RobotOrderIrrelevant(ev.doc[1], Pairs(devices')))]_vars

\* A document of two different mappings that give one name the same state,
\* one of them with keys before and inside durations, was parsed into a
\* registry that held devices.
C10_Witness ==
    /\ ev.of = "parse" /\ ev.op = "return" /\ ev.had > 0
    /\ SingleValued(ev.doc[1])
    /\ Len(ev.doc[1].robot) = 2
    /\ ev.doc[1].robot[1].t = "map" /\ ev.doc[1].robot[2].t = "map"
    /\ ev.doc[1].robot[1] # ev.doc[1].robot[2]
    /\ \E n \in TopNames :
          EntryStates(ev.doc[1].robot[1], n) # {} /\ EntryStates(ev.doc[1].robot[2], n) # {}
    /\ Cardinality(DocNames(ev.doc[1])) > 1

-----------------------------------------------------------------------------
\* The robot entries of r that give name n.
EntriesGiving(r, n) == {i \in 1 .. Len(r.robot) : EntryStates(r.robot[i], n) # {}}

\* The last of a non-empty set of indices.
Last(I) == CHOOSE i \in I : \A j \in I : j <= i

\* The names that more than one robot entry of r gives.
Repeated(r) == {n \in TopNames \cup DurNames : Cardinality(EntriesGiving(r, n)) > 1}

(* C11: when more than one non-null robot entry of a well-formed document   *)
(* gives the same evaluated name, the parse raises nothing, the registry    *)
(* holds one device of that name (one new object at most), and the state    *)
(* of that device is the one the last of these entries gives.               *)
C11_LastEntryWins ==
    [][(ev.op = "input" /\ ev'.op # "input" /\ WellFormed(ev.doc[1])
            /\ Repeated(ev.doc[1]) # {})
          => (/\ ev'.op = "return" /\ ev'.exc = "none"
              /\ nobjs' - nobjs = Cardinality(DocNames(ev.doc[1]) \ DOMAIN devices)
              /\ \A n \in Repeated(ev.doc[1]) :
                    /\ n \in DOMAIN devices'
                    /\ devices'[n].data.name = n
                    /\ EntryStates(ev.doc[1].robot[Last(EntriesGiving(ev.doc[1], n))], n)
                          = {devices'[n].data.state})]_vars

\* A document whose two entries give one name different states was parsed,
\* and the device has the state of the second.
C11_Witness ==
    /\ ev.of = "parse" /\ ev.op = "return"
    /\ Len(ev.doc[1].robot) = 2
    /\ \E n \in Repeated(ev.doc[1]) :
          /\ EntryStates(ev.doc[1].robot[1], n) # EntryStates(ev.doc[1].robot[2], n)
          /\ devices[n].data.state \in EntryStates(ev.doc[1].robot[2], n)

-----------------------------------------------------------------------------
(* C12: send_desired_state_request logs in once and retries once after an   *)
(* unauthorized first request, does neither after any other failure, lets   *)
(* the failure of the retry reach its caller, and whatever its outcome      *)
(* leaves last_refresh, online and the registry as they were; online        *)
(* changes only in steps of a refresh.                                      *)
C12_DesiredStateRequestChangesNothing ==
    [][/\ (ev'.of = "desired") => UNCHANGED <<last_refresh, online, devices, nobjs>>
       /\ (online' # online) => (ev'.of = "update")
       /\ \A c \in Calls :
             (calls[c].op = "desired" /\ ev'.call = c) =>
                /\ (calls[c].pc = "request"
                        /\ ev'.got = "AqualinkServiceUnauthorizedException")
                   => (ev'.op = "login" /\ calls'[c].pc = "login"
                          /\ ev'.nreq = 1 /\ ev'.nlogin = 1)
                /\ (calls[c].pc = "request" /\ ev'.got = "AqualinkServiceException")
                   => (ev'.op = "raise" /\ ev'.exc = ev'.got /\ calls'[c] = IdleCall
                          /\ ev'.nreq = 1 /\ ev'.nlogin = 0)
                /\ (calls[c].pc = "login" /\ ev'.got = "token")
                   => (ev'.op = "retry" /\ calls'[c].pc = "retry"
                          /\ ev'.nreq = 2 /\ ev'.nlogin = 1)
                /\ (calls[c].pc = "retry" /\ ev'.got \in TransportErrors)
                   => (ev'.op = "raise" /\ ev'.exc = ev'.got /\ calls'[c] = IdleCall
                          /\ ev'.nreq = 2 /\ ev'.nlogin = 1)
                /\ (ev'.got = "response")
                   => (ev'.op = "return" /\ ev'.exc = "none" /\ calls'[c] = IdleCall)]_vars

\* The retry of a send_desired_state_request failed after a refresh had
\* succeeded, and online is still True.
C12_Witness ==
    /\ ev.of = "desired" /\ ev.op = "raise" /\ ev.at = "retry"
    /\ ev.nreq = 2 /\ ev.nlogin = 1
    /\ online = "True"
    /\ last_refresh > 0 /\ devices # EmptyDict

-----------------------------------------------------------------------------
\* The step begins a refresh: update is entered and reaches line 70.
RefreshBegins == ev'.of = "update" /\ ev'.at = "idle"

\* The refresh that begins contacts the network.
ContactsNetwork ==
    /\ ev'.op = "request" /\ ev'.nreq = 1
    /\ calls'[ev'.call].pc = "request" /\ calls'[ev'.call].op = "update"

\* A refresh whose request returns a document that parses sets online to True.
SuccessSetsOnline ==
    (ev'.of = "update" /\ ev'.got = "response" /\ WellFormed(ev'.doc[1]))
        => (ev'.op = "return" /\ online' = "True")

(* C13 as stated: the refresh that begins next after a refresh has ended in *)
(* an error is not throttled: it contacts the network, and sets online to   *)
(* True when its request returns a document that parses.                    *)
C13_UsableAfterFailure ==
    [][/\ (RefreshBegins /\ ev.after \in {"error", "overtaken"}) => ContactsNetwork
       /\ SuccessSetsOnline]_vars

(* C13 as amended: the refresh that begins next after a refresh has ended   *)
(* in an error is not throttled, provided no other refresh has succeeded    *)
(* since the failed one read last_refresh: it contacts the network, and     *)
(* sets online to True when its request returns a document that parses.     *)
C13_UsableAfterFailureAmended ==
    [][/\ (RefreshBegins /\ ev.after = "error") => ContactsNetwork
       /\ SuccessSetsOnline]_vars

\* After a refresh had succeeded, a later one ended in an error and the next
\* one has sent its request.
C13_Witness ==
    /\ ev.op = "request" /\ ev.of = "update" /\ ev.after = "resumed"
    /\ last_refresh > 0 /\ devices # EmptyDict
    /\ calls[ev.call].pc = "request"

-----------------------------------------------------------------------------
\* The variant a device created under name n has.
VariantOf(n) ==
    IF n \in {"production", "boost", "low"} THEN "CyclonextProg"
    ELSE "CyclonextAttributeSensor"

-----------------------------------------------------------------------------
(* C15: a call awaits login only from its first request, and sends its      *)
(* second request only from that login, in the step in which login returns; *)
(* the second request carries the id_token that login has left, which is    *)
(* not the credential the first request carried.                            *)
C15_RetryCarriesNewCredential ==
    [][\A c \in Calls :
          /\ (calls'[c].pc = "login" /\ calls[c].pc # "login")
                => (calls[c].pc = "request" /\ calls[c].nreq = 1 /\ calls'[c].nreq = 1
                       /\ calls'[c].hdr = calls[c].hdr)
          /\ (calls'[c].pc = "retry" /\ calls[c].pc # "retry")
                => (/\ calls[c].pc = "login" /\ ev'.got = "token"
                    /\ calls[c].nreq = 1 /\ calls'[c].nreq = 2
                    /\ calls'[c].hdr = id_token'
                    /\ calls'[c].hdr # calls[c].hdr)
          /\ (calls[c].pc = "retry" /\ calls'[c].pc # "retry")
                => calls'[c].pc = "idle"]_vars

\* A call has sent its second request with the credential of the login.
C15_Witness ==
    \E c \in Calls :
        /\ ev.call = c /\ ev.op = "retry" /\ ev.at = "login"
        /\ calls[c].pc = "retry" /\ calls[c].nreq = 2
        /\ calls[c].hdr = id_token /\ id_token > 0

-----------------------------------------------------------------------------
(* C16: when the login of a call fails, the call ends there with the error  *)
(* of the login: no second request is sent and the credential stays; in a   *)
(* refresh online becomes None while last_refresh and the registry are      *)
(* unchanged, in a send_desired_state_request online is unchanged too.      *)
C16_LoginFailurePropagates ==
    [][\A c \in Calls :
          (/\ calls[c].pc = "login"
           /\ ev'.call = c
           /\ ev'.got \in TransportErrors)
          => (/\ ev'.op = "raise" /\ ev'.exc = ev'.got
              /\ ev'.nreq = 1 /\ ev'.nlogin = 1
              /\ calls' = [calls EXCEPT ![c] = IdleCall]
              /\ online' = IF calls[c].op = "update" THEN "None" ELSE online
              /\ UNCHANGED <<last_refresh, devices, nobjs, id_token>>)]_vars

\* The login of a refresh failed after an earlier refresh had succeeded: the
\* refresh ended after one request and online is None.
C16_Witness ==
    /\ ev.of = "update" /\ ev.at = "login" /\ ev.op = "raise"
    /\ ev.exc \in TransportErrors
    /\ ev.nreq = 1 /\ ev.nlogin = 1
    /\ online = "None"
    /\ last_refresh > 0 /\ devices # EmptyDict

-----------------------------------------------------------------------------
(* C17: when the document a refresh has fetched is malformed (it does not   *)
(* decode, the robot path is missing, an entry is neither null nor a        *)
(* mapping, or durations is not a mapping), the refresh ends with the       *)
(* decoding, key or attribute error of the parse, and the registry, the     *)
(* number of device objects, online and last_refresh are what they were:    *)
(* nothing the document gives before the failure is merged.                 *)
C17_MalformedDocumentChangesNothing ==
    [][\A c \in Calls :
          (/\ ev'.call = c /\ ev'.of = "update" /\ ev'.got = "response"
           /\ ~WellFormed(ev'.doc[1]))
          => (/\ ev'.op = "raise"
              /\ ev'.exc \in {"JSONDecodeError", "KeyError", "AttributeError"}
              /\ calls' = [calls EXCEPT ![c] = IdleCall]
              /\ UNCHANGED <<devices, nobjs, online, last_refresh, id_token>>)]_vars

\* After a successful refresh, a refresh fetched a document that gives mode
\* another state and then a durations that is no mapping: the refresh raised,
\* mode has its earlier state and online is still True.
C17_Witness ==
    /\ ev.of = "update" /\ ev.op = "raise" /\ ev.exc = "AttributeError"
    /\ online = "True" /\ last_refresh > 0
    /\ "mode" \in DOMAIN devices
    /\ DocStates(ev.doc[1], "mode") # {}
    /\ devices["mode"].data.state \notin DocStates(ev.doc[1], "mode")

-----------------------------------------------------------------------------
(* C18: whatever refreshes have run, the registry holds at most six         *)
(* devices, each under one of the names mode, cycle, cycleStartTime,        *)
(* quickTim, deepTim, stepper and named after its key, each a               *)
(* CyclonextAttributeSensor, and no device object has been made beyond      *)
(* those in the registry.                                                   *)
C18_OnlySixAttributeSensors ==
    /\ DOMAIN devices \subseteq
          {"mode", "cycle", "cycleStartTime", "quickTim", "deepTim", "stepper"}
    /\ Cardinality(DOMAIN devices) <= 6
    /\ nobjs = Cardinality(DOMAIN devices)
    /\ \A n \in DOMAIN devices :
          /\ devices[n].cls = "CyclonextAttributeSensor"
          /\ devices[n].data.name = n

\* A refresh has left all six devices in the registry, from a document that
\* has other keys too.
C18_Witness ==
    /\ ev.of = "update" /\ ev.op = "return"
    /\ Cardinality(DOMAIN devices) = 6
    /\ \E i \in 1 .. Len(ev.doc[1].robot) :
          /\ ev.doc[1].robot[i].t = "map"
          /\ \E j \in 1 .. Len(ev.doc[1].robot[i].items) :
                ev.doc[1].robot[i].items[j][1] \notin
                    TopNames \cup DurNames \cup {"durations"}

-----------------------------------------------------------------------------
(* C19: a call is suspended only at a request or at a login; the step in    *)
(* which its request returns a document runs the parse, the merge and the   *)
(* writes of online and last_refresh together, so every step that changes   *)
(* the registry also leaves online True and last_refresh at the current     *)
(* time, ends that call and moves no other call.                            *)
C19_ParseMergeStampInOneStep ==
    [][/\ \A c \in Calls : calls'[c].pc \in {"idle", "request", "login", "retry"}
       /\ (devices' # devices \/ nobjs' # nobjs)
            => (/\ ev'.of = "update" /\ ev'.got = "response" /\ ev'.op = "return"
                /\ online' = "True"
                /\ last_refresh' = clock')
       /\ (ev'.of = "update" /\ ev'.got = "response")
            => (/\ calls'[ev'.call] = IdleCall
                /\ \A d \in Calls \ {ev'.call} : calls'[d] = calls[d])]_vars

\* A refresh has merged a document that changed the registry while another
\* refresh is suspended at its request: that one finds online True and
\* last_refresh at the time of the merge.
C19_Witness ==
    /\ ev.of = "update" /\ ev.op = "return"
    /\ ev.had < Cardinality(DOMAIN devices)
    /\ online = "True" /\ last_refresh = clock
    /\ \E d \in Calls \ {ev.call} :
          calls[d].op = "update" /\ calls[d].pc = "request"

-----------------------------------------------------------------------------
\* The refresh of coroutine d is in progress, and no refresh has written
\* last_refresh since d read it at line 69.
FetchInFlight(d) ==
    /\ calls[d].op = "update" /\ calls[d].pc \in {"request", "login", "retry"}
    /\ calls[d].seen = last_refresh

(* C20: while the fetch of one refresh is in flight (and no refresh has     *)
(* succeeded since it began), a refresh begun by another call is not        *)
(* throttled and can send its own request; and when a refresh returns, the  *)
(* devices its document gives have the states of that document, whatever    *)
(* another refresh has merged before: the response parsed last decides.     *)
C20_NoMutualExclusion ==
    /\ \A c \in Calls : \A d \in Calls \ {c} :
          (FetchInFlight(d) /\ calls[c].pc = "idle")
             => (ENABLED UpdateRequest(c) /\ ~ENABLED UpdateThrottled(c))
    /\ (ev.of = "update" /\ ev.op = "return")
          => \A n \in DocNames(ev.doc[1]) :
                EntryStates(ev.doc[1].robot[Last(EntriesGiving(ev.doc[1], n))], n)
                    = {devices[n].data.state}

\* Two refreshes were in flight together; one has merged its document and
\* written last_refresh, and now the other has merged its own into the
\* registry the first left.
C20_Witness ==
    /\ ev.of = "update" /\ ev.op = "return" /\ ev.late
    /\ ev.had > 0
    /\ last_refresh = clock
    /\ DocNames(ev.doc[1]) # {}

=============================================================================
